---- MODULE Spec2Model ----
(***************************************************************************)
(* macromania-fs: the Dir and File macros and the file-system functions of *)
(* src/mod.tsx, evaluated by the macromania engine against a               *)
(* SimpleFilesystem backend.                                               *)
(*                                                                         *)
(* The state is the backend (its entries and its current directory), the   *)
(* engine's Context (halt flag, error count, round flags) and the          *)
(* position of the engine in the expression it evaluates.  There is one    *)
(* action per callback the package hands to the engine: the effect         *)
(* function of Dir, the lifecycle pre and post of Dir, the effect function *)
(* of File, the map function of File, plus the progress-gated effect used  *)
(* by the tests, effects that call an exported function or currentFile,    *)
(* the function of a macro around the Deno API (src/index.tsx and          *)
(* src/unnamed/part_001) after the import of the file that exports it, and *)
(* the end of an evaluation round.                                         *)
(***************************************************************************)
EXTENDS Integers, Sequences, FiniteSets, TLC

VARIABLES
  doc,        \* the expression handed to ctx.evaluate
  fsConfig,   \* the fs prop of the surrounding ConfigFs: "memFs", "null",
              \* or a test double: "stub", "failingStub"
  innerFiles, \* the entries of the backend of a nested <ConfigFs fs="inner">
  innerCwd,   \* the current directory of that backend
  haltPolicy, \* when the engine looks at the halt flag (see HaltPolicies)
  files0,     \* the backend's entries before the evaluation
  files,      \* the backend's entries: absolute path -> entry
  cwd,        \* the backend's current directory (absolute path)
  calls,      \* the backend methods invoked so far, in order
  errors,     \* number of ctx.error calls so far
  log,        \* what the package passed to ctx.error and ctx.info, in order
  seen,       \* what the effects got from the functions they called, in order
  haltExecution, \* ctx.halt() has been called
  madeProgressThisRound,
  mustMakeProgress,
  round,      \* number of the evaluation round, from 1
  ctl,        \* what the engine does next: evaluate an expression or return one
  stack,      \* the engine's enclosing fragments, lifecycles and maps
  pc,         \* "loading", "running", "done" or "failed"
  result      \* what ctx.evaluate returned

vars == << doc, fsConfig, innerFiles, innerCwd,
           haltPolicy, files0, files, cwd, calls, errors,
           log, seen, haltExecution, madeProgressThisRound, mustMakeProgress,
           round, ctl, stack, pc, result >>

-----------------------------------------------------------------------------
(* Bounds of the model *)

\* Dir macros nest at most this deep in the documents evaluated.
MaxDepth == 2

-----------------------------------------------------------------------------
(* Strings: a string is the sequence of its characters *)

foo == << "f", "o", "o" >>
bar == << "b", "a", "r" >>
hi == << "h", "i" >>
ha == << "h", "a" >>
zzz == << "z", "z", "z" >>
EmptyString == << >>
Dot == << "." >>
DotDot == << ".", "." >>
WithSlash == << "a", "/", "b" >>

Range(s) == { s[i] : i \in DOMAIN s }

-----------------------------------------------------------------------------
(* Paths of the simple-fs abstraction *)

\* Path.isComponent: no "/", not empty, not "." and not "..".
isComponent(name) ==
  /\ name # EmptyString
  /\ "/" \notin Range(name)
  /\ name # Dot
  /\ name # DotDot

\* Path.relative(components, up): ascend `up` levels, then descend.
PathRelative(components, up) == [components |-> components, up |-> up]

-----------------------------------------------------------------------------
(* The backend: an in-memory SimpleFilesystem.  The root always exists.    *)

Root == << >>
DirEntry == [kind |-> "directory", content |-> EmptyString]
DataEntry(s) == [kind |-> "data", content |-> s]

IsPrefix(p, q) == Len(p) <= Len(q) /\ SubSeq(q, 1, Len(p)) = p
Parent(p) == SubSeq(p, 1, Len(p) - 1)

\* stat: "directory", "data" or "nothing".
FsStat(f, p) == IF p \in DOMAIN f THEN f[p].kind ELSE "nothing"

\* The absolute path a relative path names in current directory d.
FsResolve(d, path) ==
  SubSeq(d, 1, Len(d) - path.up) \o path.components

FsCanResolve(d, path) == path.up <= Len(d)

\* The entries without p and everything below it.
FsWithout(f, p) == [q \in { q \in DOMAIN f : ~IsPrefix(p, q) } |-> f[q]]

\* A backend that leaves what exists alone when no mode is passed.
DefaultMode_Placid == "placid"

\* The mode a backend method uses when none is passed.
DefaultMode == "timid"
EffectiveMode(mode) == IF mode = "undefined" THEN DefaultMode ELSE mode

\* Creating entry e at p under a mode: [threw, files].
FsCreate(f, p, e, mode) ==
  IF p = Root \/ FsStat(f, Parent(p)) # "directory"
  THEN [threw |-> TRUE, files |-> f]
  ELSE IF FsStat(f, p) = "nothing"
  THEN [threw |-> FALSE, files |-> (p :> e) @@ f]
  ELSE CASE EffectiveMode(mode) = "timid" -> [threw |-> TRUE, files |-> f]
         [] EffectiveMode(mode) = "placid" -> [threw |-> FALSE, files |-> f]
         [] EffectiveMode(mode) = "assertive" ->
              [threw |-> FALSE, files |-> (p :> e) @@ FsWithout(f, p)]

\* What a method of type void returns.
Void == [void |-> TRUE]

\* fs.mkdir(path, mode)
FsMkdir(f, d, path, mode) ==
  IF ~FsCanResolve(d, path)
  THEN [threw |-> TRUE, files |-> f, cwd |-> d, ret |-> Void]
  ELSE LET r == FsCreate(f, FsResolve(d, path), DirEntry, mode)
       IN  [threw |-> r.threw, files |-> r.files, cwd |-> d, ret |-> Void]

\* fs.writeString(path, data, mode)
FsWriteString(f, d, path, data, mode) ==
  IF ~FsCanResolve(d, path)
  THEN [threw |-> TRUE, files |-> f, cwd |-> d, ret |-> Void]
  ELSE LET r == FsCreate(f, FsResolve(d, path), DataEntry(data), mode)
       IN  [threw |-> r.threw, files |-> r.files, cwd |-> d, ret |-> Void]

\* fs.cd(path): the working directory is virtual, cd moves it without
\* looking at the entries.
FsCd(f, d, path) ==
  IF ~FsCanResolve(d, path)
  THEN [threw |-> TRUE, files |-> f, cwd |-> d, ret |-> Void]
  ELSE [threw |-> FALSE, files |-> f, cwd |-> FsResolve(d, path), ret |-> Void]

\* fs.pwd() and fs.stat(path) change nothing: pwd returns the current
\* directory, stat the kind of the entry at the path.
FsLook(f, d, name, path) ==
  IF ~FsCanResolve(d, path)
  THEN [threw |-> TRUE, files |-> f, cwd |-> d, ret |-> Void]
  ELSE [threw |-> FALSE, files |-> f, cwd |-> d,
        ret |-> IF name = "pwd" THEN [pwd |-> d]
                ELSE [stat |-> FsStat(f, FsResolve(d, path))]]

\* One backend method applied to the MemoryFs.
FsApply(f, d, op) ==
  CASE op.name \in { "mkdir", "mkdirSync" } ->
         FsMkdir(f, d, op.path, op.mode)
    [] op.name \in { "writeString", "writeStringSync" } ->
         FsWriteString(f, d, op.path, op.data, op.mode)
    [] op.name = "cd" -> FsCd(f, d, op.path)
    [] op.name \in { "pwd", "stat", "statSync" } ->
         FsLook(f, d, op.name, op.path)

\* Two test doubles for the backend, objects with the methods of a
\* SimpleFilesystem: every method of "stub" returns a value that tells
\* which method was called with which arguments, every method of
\* "failingStub" throws.  Neither keeps entries or a current directory.
StubApply(fs, f, d, op) ==
  [threw |-> fs = "failingStub", files |-> f, cwd |-> d,
   ret |-> [returnedBy |-> op.name, given |-> op.args]]

\* The method op names, invoked on the backend fs.
Invoke(fs, f, d, op) ==
  IF fs \in { "stub", "failingStub" } THEN StubApply(fs, f, d, op)
  ELSE FsApply(f, d, op)

-----------------------------------------------------------------------------
(* The package's functions.  A world w is what a callback can change:      *)
(* [files, cwd, calls, errors, haltExecution, thrown, value]; thrown says  *)
(* that the function ended by throwing the value of ctx.halt(), value is   *)
(* what it returned otherwise.  A call is                                  *)
(* logged with the method and its arguments (op), the current directory it *)
(* was made in (at), the directory of the nearest surrounding Dir (inside) *)
(* and whether the backend threw.                                          *)

Top(s) == s[Len(s)]
Pop(s) == SubSeq(s, 1, Len(s) - 1)

RECURSIVE EnclosingDirs(_)
\* The directory the Dirs whose children are being evaluated lead to, from
\* the directory the evaluation started in: the lifecycles on the stack, up
\* to the closest surrounding ConfigFs.
EnclosingDirs(s) ==
  IF s = << >> \/ Top(s).k = "config" THEN Root
  ELSE EnclosingDirs(Pop(s))
         \o (IF Top(s).k = "lifecycle" THEN Top(s).path.components ELSE << >>)

\* A getConfig that yields the fs of the outermost ConfigFs.
CurrentFs_Outermost(s) == fsConfig

\* getConfig(ctx).fs: the fs prop of the closest surrounding ConfigFs.
CurrentFs(s) ==
  LET I == { i \in DOMAIN s : s[i].k = "config" } IN
  IF I = { } THEN fsConfig
  ELSE s[CHOOSE i \in I : \A j \in I : j <= i].fs

NumEnclosingDirs(s) == Len(EnclosingDirs(s))

World ==
  LET fs == CurrentFs(stack) IN
  [fs |-> fs,
   files |-> IF fs = "inner" THEN innerFiles ELSE files,
   cwd |-> IF fs = "inner" THEN innerCwd ELSE cwd,
   calls |-> calls, errors |-> errors,
   log |-> log, seen |-> seen,
   haltExecution |-> haltExecution, thrown |-> FALSE,
   value |-> Void, unhandledRejection |-> FALSE,
   inside |-> EnclosingDirs(stack)]

\* A logged message: its level, the text as written in the source (with {}
\* where a value is put in), the operation the text says was attempted, the
\* names of entries put into the text, and for ctx.error(err) the backend
\* method that threw err.
NoCause == "none"
Message(level, text, attempted, names, cause) ==
  [level |-> level, text |-> text, attempted |-> attempted,
   names |-> names, cause |-> cause]

\* ctx.error and ctx.info
ctxError(w, text, attempted, names, cause) ==
  [w EXCEPT !.errors = @ + 1,
            !.log = Append(@, Message("error", text, attempted, names, cause))]
ctxInfo(w, text) ==
  [w EXCEPT !.log = Append(@, Message("info", text, "", << >>, NoCause))]

\* ctx.halt(), its value returned, and its value thrown
HaltValue == [halt |-> TRUE]
ctxHalt(w) == [w EXCEPT !.haltExecution = TRUE, !.value = HaltValue]
ctxHaltThrown(w) == [w EXCEPT !.haltExecution = TRUE, !.thrown = TRUE]

\* A doGetFs that halts without saying why.
doGetFs_NoError(w, explanation) ==
  IF w.fs = "null" THEN ctxHaltThrown(w) ELSE [w EXCEPT !.value = [fs |-> w.fs]]

\* doGetFs: without a configured fs, one error, how to configure one, and
\* `throw ctx.halt()`; else the fs is returned.
doGetFs(w, explanation) ==
  IF w.fs = "null"
  THEN ctxHaltThrown(
         ctxInfo(ctxInfo(ctxInfo(
           ctxError(w, "Tried to {} with {}, but no backing file system was configured.",
                    explanation, << >>, NoCause),
           "Use the {} prop of the {} macro (see {}) to configure a backing file system."),
           "For interacting with the native file system when using the Deno javascript runtime, see {}"),
           "For interacting with an in-memory \"file system\", or for implementing your own backends, see {}"))
  ELSE [w EXCEPT !.value = [fs |-> w.fs]]

\* A catch block that reports nothing.
BackendFailure_Swallowed(w, op) ==
  [w EXCEPT !.calls = Append(@, [op |-> op, fs |-> w.fs, at |-> w.cwd,
                                 inside |-> w.inside, threw |-> TRUE])]

\* What a failed backend call leaves: two errors (the explanation and the
\* backend's error), a note, and ctx.halt() is called and its value
\* returned.
BackendFailure(w, op) ==
  ctxHalt(
    ctxInfo(
      ctxError(
        ctxError([w EXCEPT !.calls = Append(@, [op |-> op, fs |-> w.fs, at |-> w.cwd,
                                                inside |-> w.inside,
                                                threw |-> TRUE])],
                 "Tried to {}, but encounter the following error:",
                 op.explanation, << >>, NoCause),
        "{}", "", << >>, op.name),
      "Note that the preceding error was emitted from an operation mediated by the {} package ( {} )"))

\* withFs: get the fs, await the action on it and return what it returns,
\* catch what it throws.
withFs(w, op) ==
  LET g == doGetFs(w, op.explanation) IN
  IF g.thrown THEN g
  ELSE LET r == Invoke(g.value.fs, w.files, w.cwd, op) IN
       IF r.threw
       THEN BackendFailure(w, op)
       ELSE [w EXCEPT !.files = r.files, !.cwd = r.cwd, !.value = r.ret,
                      !.calls = Append(@, [op |-> op, fs |-> w.fs, at |-> w.cwd,
                                           inside |-> w.inside,
                                           threw |-> FALSE])]

\* A withFsSync that lets what the backend throws pass.
withFsSync_NoCatch(w, op) ==
  LET g == doGetFs(w, op.explanation) IN
  IF g.thrown THEN g
  ELSE LET r == Invoke(g.value.fs, w.files, w.cwd, op) IN
       [w EXCEPT !.files = r.files, !.cwd = r.cwd, !.value = r.ret,
                 !.thrown = r.threw,
                 !.calls = Append(@, [op |-> op, fs |-> w.fs, at |-> w.cwd,
                                      inside |-> w.inside,
                                      threw |-> r.threw])]

\* withFsSync: the same, without awaiting.
withFsSync(w, op) ==
  LET g == doGetFs(w, op.explanation) IN
  IF g.thrown THEN g
  ELSE LET r == Invoke(g.value.fs, w.files, w.cwd, op) IN
       IF r.threw
       THEN BackendFailure(w, op)
       ELSE [w EXCEPT !.files = r.files, !.cwd = r.cwd, !.value = r.ret,
                      !.calls = Append(@, [op |-> op, fs |-> w.fs, at |-> w.cwd,
                                           inside |-> w.inside,
                                           threw |-> FALSE])]

\* A mkdir that does not pass the mode on.
mkdir_ModeDropped(w, path, mode) ==
  withFs(w, [name |-> "mkdir", explanation |-> "create a directory",
             path |-> path, mode |-> "undefined",
             data |-> EmptyString, args |-> << path, "undefined" >>])

\* A mkdir that always overwrites.
mkdir_Forced(w, path, mode) ==
  withFs(w, [name |-> "mkdir", explanation |-> "create a directory",
             path |-> path, mode |-> "assertive",
             data |-> EmptyString, args |-> << path, "assertive" >>])

\* A mkdir that calls the backend twice.
mkdir_Twice(w, path, mode) ==
  LET op == [name |-> "mkdir", explanation |-> "create a directory",
             path |-> path, mode |-> mode,
             data |-> EmptyString, args |-> << path, mode >>]
      once == withFs(w, op)
  IN  IF once.thrown THEN once ELSE withFs(once, op)

\* A mkdir that takes placid to mean that nothing is to be done.
mkdir_PlacidSkipped(w, path, mode) ==
  IF mode = "placid" THEN w
  ELSE withFs(w, [name |-> "mkdir", explanation |-> "create a directory",
                  path |-> path, mode |-> mode,
                  data |-> EmptyString, args |-> << path, mode >>])

\* A mkdir that never reaches the backend.
mkdir_Skipped(w, path, mode) == w

mkdir(w, path, mode) ==
  withFs(w, [name |-> "mkdir", explanation |-> "create a directory",
             path |-> path, mode |-> mode,
             data |-> EmptyString, args |-> << path, mode >>])

\* A writeString that passes the path from the directory the evaluation
\* started in.
writeString_FullPath(w, path, data, mode) ==
  withFs(w, [name |-> "writeString",
             explanation |-> "write a UTF-8 string to a data file",
             path |-> PathRelative(w.inside \o path.components, 0),
             mode |-> mode, data |-> data,
             args |-> << PathRelative(w.inside \o path.components, 0),
                         data, mode >>])

\* A writeString that loses the data.
writeString_NoData(w, path, data, mode) ==
  withFs(w, [name |-> "writeString",
             explanation |-> "write a UTF-8 string to a data file",
             path |-> path, mode |-> mode,
             data |-> EmptyString,
             args |-> << path, EmptyString, mode >>])

\* A writeString that does not pass the mode on.
writeString_ModeDropped(w, path, data, mode) ==
  withFs(w, [name |-> "writeString",
             explanation |-> "write a UTF-8 string to a data file",
             path |-> path, mode |-> "undefined",
             data |-> data,
             args |-> << path, data, "undefined" >>])

\* A writeString that always overwrites.
writeString_Forced(w, path, data, mode) ==
  withFs(w, [name |-> "writeString",
             explanation |-> "write a UTF-8 string to a data file",
             path |-> path, mode |-> "assertive",
             data |-> data,
             args |-> << path, data, "assertive" >>])

writeString(w, path, data, mode) ==
  withFs(w, [name |-> "writeString",
             explanation |-> "write a UTF-8 string to a data file",
             path |-> path, mode |-> mode,
             data |-> data,
             args |-> << path, data, mode >>])

\* A cd that leaves the working directory where it is.
cd_Ignored(w, path) == w

cd(w, path) ==
  withFsSync(w, [name |-> "cd",
                 explanation |-> "change the (virtual) working directory",
                 path |-> path, mode |-> "undefined", data |-> EmptyString,
                 args |-> << path >>])

\* The functions the package exports, by the backend method they call.
PackageFunctions ==
  { "pwd", "cd", "ls", "lsSync", "stat", "statSync", "read", "readSync",
    "write", "writeSync", "mkdir", "mkdirSync", "remove", "removeSync",
    "copy", "copySync", "move", "moveSync", "readString", "readStringSync",
    "writeString", "writeStringSync", "ensureNot", "ensureNotSync", "getFs" }

\* Those that go through withFsSync.
SyncFunctions ==
  { "pwd", "cd", "lsSync", "statSync", "readSync", "writeSync", "mkdirSync",
    "removeSync", "copySync", "moveSync", "readStringSync",
    "writeStringSync", "ensureNotSync" }

\* Those whose backend method the model of the backend covers.
BackedFunctions ==
  { "pwd", "cd", "stat", "statSync", "mkdir", "mkdirSync",
    "writeString", "writeStringSync" }

\* The explanation each function passes to withFs, withFsSync or doGetFs.
Explanation(fn) ==
  CASE fn = "pwd" -> "get the (virtual) current working directory"
    [] fn = "cd" -> "change the (virtual) working directory"
    [] fn \in { "ls", "lsSync" } -> "list all files in a directory"
    [] fn \in { "stat", "statSync" } -> "obtain information about a file"
    [] fn \in { "read", "readSync" } -> "read a data file"
    [] fn \in { "write", "writeSync" } -> "write a data file"
    [] fn \in { "mkdir", "mkdirSync" } -> "create a directory"
    [] fn \in { "remove", "removeSync" } -> "delete a file"
    [] fn \in { "copy", "copySync" } -> "copy a file"
    [] fn \in { "move", "moveSync" } -> "move a file"
    [] fn \in { "readString", "readStringSync" } ->
         "read a data file as a UTF-8 string"
    [] fn \in { "writeString", "writeStringSync" } ->
         "write a UTF-8 string to a data file"
    [] fn \in { "ensureNot", "ensureNotSync" } ->
         "ensure a file does not exist"
    [] fn = "getFs" -> "obtain the current file system object"

\* Wrappers that pass nothing but the path to the backend.
MethodArgs_PathOnly(fn, a) == << a.path >>

\* The arguments function fn passes to the backend method, in order, when
\* it was called with the arguments a = [path, dst, data, mode] (path is
\* src for copy and move; an argument fn does not take is not looked at).
MethodArgs(fn, a) ==
  CASE fn = "pwd" -> << >>
    [] fn \in { "cd", "ls", "lsSync", "stat", "statSync", "read", "readSync",
                "remove", "removeSync", "readString", "readStringSync" } ->
         << a.path >>
    [] fn \in { "write", "writeSync", "writeString", "writeStringSync" } ->
         << a.path, a.data, a.mode >>
    [] fn \in { "mkdir", "mkdirSync", "ensureNot", "ensureNotSync" } ->
         << a.path, a.mode >>
    [] fn \in { "copy", "copySync", "move", "moveSync" } ->
         << a.path, a.dst, a.mode >>

\* The callback function fn hands to withFs or withFsSync: the backend
\* method of the same name on the arguments.
Method(fn, a) ==
  [name |-> fn, explanation |-> Explanation(fn),
   path |-> a.path, mode |-> a.mode, data |-> a.data,
   args |-> MethodArgs(fn, a)]

\* Function fn of the package called with the arguments a.
PackageCall(w, fn, a) ==
  CASE fn = "getFs" -> doGetFs(w, Explanation(fn))
    [] fn = "mkdir" -> mkdir(w, a.path, a.mode)
    [] fn = "writeString" -> writeString(w, a.path, a.data, a.mode)
    [] fn = "cd" -> cd(w, a.path)
    [] fn \in SyncFunctions -> withFsSync(w, Method(fn, a))
    [] OTHER -> withFs(w, Method(fn, a))

\* A post that stays in the directory.
AscendNone == PathRelative(<< >>, 0)

\* Path.relative([], 1), the path the post of Dir passes to cd.
AscendOne == PathRelative(<< >>, 1)

\* A nameToRelativePath that takes every name.
nameToRelativePath_Unchecked(w, name) ==
  [w |-> w, path |-> PathRelative(<< name >>, 0)]

\* nameToRelativePath: [w, path]; an invalid name is one error, the rule
\* for names, and `throw ctx.halt()`.
nameToRelativePath(w, name) ==
  IF isComponent(name)
  THEN [w |-> w, path |-> PathRelative(<< name >>, 0)]
  ELSE [w |-> ctxHaltThrown(
                ctxInfo(
                  ctxError(w, "Tried to create a directory, but the given name was not a valid path component for the {} ( {} )",
                           "create a directory", << >>, NoCause),
                  "The name must not contain any {}, must not be empty, and must not be {} or {}")),
        path |-> PathRelative(<< >>, 0)]

-----------------------------------------------------------------------------
(* The macros around the Deno file-system API (src/index.tsx, the          *)
(* synchronous forms, and src/unnamed/part_001, the asynchronous forms).   *)
(* Each hands the engine a function that runs one operation of Deno or of  *)
(* Deno's std/fs inside try/catch.                                         *)

\* The macros around functions of std/fs, the macros both files export,
\* and the one only the asynchronous file exports.
StdMacros ==
  { "Copy", "EmptyDir", "EnsureDir", "EnsureFile", "EnsureLink",
    "EnsureSymlink" }
DenoMacros ==
  { "Chmod", "Chown", "CopyFile", "Link", "MakeTempDir", "MakeTempFile",
    "Mkdir", "ReadLink", "ReadTextFile", "RealPath", "Remove", "Rename",
    "Symlink", "Truncate", "Utime", "WriteTextFile" } \cup StdMacros
AsyncOnlyMacros == { "EnsureNot" }
Forms == { "sync", "async" }
MacrosOf(form) ==
  IF form = "async" THEN DenoMacros \cup AsyncOnlyMacros ELSE DenoMacros

\* The props a macro is given: the required ones only, or every optional one
\* (uid, gid, options, len) as well.
PropSets == { "required", "all" }

\* How the operation can end: a synchronous one returns or throws, an
\* asynchronous one returns a promise that is fulfilled or rejected; EnsureNot
\* tells a rejection with Deno.errors.NotFound from any other.
Outcomes(name, form) ==
  IF form = "sync" THEN { "returns", "throws" }
  ELSE IF name = "EnsureNot"
  THEN { "fulfilled", "rejected", "rejectedNotFound" }
  ELSE { "fulfilled", "rejected" }

\* The function is declared async: every function of the asynchronous file
\* but that of WriteTextFile.
DeclaredAsync(name, form) == form = "async" /\ name # "WriteTextFile"

\* The function awaits the promise inside its try block: the asynchronous
\* forms of the macros around Deno.* do, those around std/fs call copy,
\* emptyDir, ensureDir, ensureFile, ensureLink and ensureSymlink without.
Awaits(name, form) == form = "async" /\ name \notin StdMacros

\* The file can be loaded: await is a syntax error in a function that is
\* not declared async.
ModuleLoads(form) ==
  \A name \in MacrosOf(form) : Awaits(name, form) => DeclaredAsync(name, form)

\* The text of the first error of the catch block, as written.
FailureText(name, form) ==
  CASE name = "Chmod" ->
         IF form = "sync" THEN "Failed to chmod file {} to the permissions 0o{}."
         ELSE "Failed to chmod file {} to the permissions 0o{}F."
    [] name = "Chown" -> "Failed to chown file {}"
    [] name = "CopyFile" -> "Failed to copy file from {} to {}"
    [] name = "Link" -> "Failed to create {} as a hardlink to {}"
    [] name = "MakeTempDir" -> "Failed to create temporary directory."
    [] name = "MakeTempFile" -> "Failed to create temporary file."
    [] name = "Mkdir" -> "Failed to create directory {}"
    [] name = "ReadLink" -> "Failed to read link {}"
    [] name = "ReadTextFile" -> "Failed to read text file {}"
    [] name = "RealPath" -> "Failed to get real path for {}"
    [] name = "Remove" -> "Failed to remove {}"
    [] name = "Rename" -> "Failed to rename (move) {} to {}"
    [] name = "Symlink" -> "Failed to create {} as a symlinklink to {}"
    [] name = "Truncate" -> "Failed to truncate {} to length {}."
    [] name = "Utime" ->
         "Failed to change access tme and modification time of {} to {} and {} respectively."
    [] name = "WriteTextFile" -> "Failed to write file {}"
    [] name = "Copy" -> "Failed to copy {} to {}"
    [] name = "EmptyDir" -> "Failed to ensure an empty directory at {}"
    [] name = "EnsureDir" -> "Failed to ensure that a directory exists at {}"
    [] name = "EnsureFile" -> "Failed to ensure that a file exists at {}"
    [] name = "EnsureLink" -> "Failed to ensure that a link exists at {} to {}"
    [] name = "EnsureSymlink" ->
         "Failed to ensure that a symlink exists at {} to {}"
    [] name = "EnsureNot" ->
         "Failed to ensure that there is no file (or directory) at {}"

\* The errors the catch block logs for the optional props it was given,
\* between the first error and the error caught.
OptionalReports(name, props) ==
  IF props # "all" THEN << >>
  ELSE IF name = "Chown" THEN << "User id: {}", "Group id: {}" >>
  ELSE IF name \in { "MakeTempDir", "MakeTempFile", "Mkdir", "Remove",
                     "Symlink", "WriteTextFile", "Copy" }
  THEN << "Options: {}" >>
  ELSE << >>

RECURSIVE ctxErrors(_, _)
ctxErrors(w, texts) ==
  IF texts = << >> THEN w
  ELSE ctxErrors(ctxError(w, Head(texts), "", << >>, NoCause), Tail(texts))

\* What the operation's success is: the string it returned.
ResultOf(name, form) == << "result of", name, form >>

\* What the function returns when the operation succeeded: what the
\* operation returned, for WriteTextFile the evaluated children, else "".
Returned(s) == [returned |-> s]
SuccessValue(name, form, evaled) ==
  IF name \in { "MakeTempDir", "MakeTempFile", "ReadLink", "ReadTextFile",
                "RealPath" }
  THEN Returned(ResultOf(name, form))
  ELSE IF name = "WriteTextFile" THEN Returned(evaled)
  ELSE Returned(EmptyString)

\* The catch block ends with `return ctx.halt()`; the others call
\* ctx.halt() and return "".
ReturnsHalt(name, form) ==
  form = "async" /\ name \in { "MakeTempFile", "ReadLink", "ReadTextFile",
                               "RealPath", "WriteTextFile" }

\* The function of the macro, run with an operation that ends as outcome:
\* the catch block is entered by an exception and by the rejection of an
\* awaited promise, logs what failed, the optional props and the error, and
\* halts.  A promise that is not awaited and rejected is left to the
\* process as an unhandled rejection.
DenoFunction(w, name, form, props, evaled, outcome) ==
  IF outcome = "rejectedNotFound" /\ name = "EnsureNot"
  THEN [w EXCEPT !.value = Returned(EmptyString)]
  ELSE IF outcome = "throws" \/ (outcome = "rejected" /\ Awaits(name, form))
  THEN LET e == ctxError(
                  ctxErrors(ctxError(w, FailureText(name, form), name, << >>,
                                     NoCause),
                            OptionalReports(name, props)),
                  "{}", "", << >>, name)
           h == ctxHalt(e)
       IN  IF ReturnsHalt(name, form) THEN h
           ELSE [h EXCEPT !.value = Returned(EmptyString)]
  ELSE IF outcome = "rejected"
  THEN [w EXCEPT !.unhandledRejection = TRUE,
                 !.value = SuccessValue(name, form, evaled)]
  ELSE [w EXCEPT !.value = SuccessValue(name, form, evaled)]

-----------------------------------------------------------------------------
(* Expressions of the engine *)

Str(s) == [k |-> "str", s |-> s]
Fragment(xs) == [k |-> "fragment", xs |-> xs]
\* <Dir name mode>children</Dir> and <File name mode forwardContent>
DirMacro(name, mode, children) ==
  [k |-> "Dir", name |-> name, mode |-> mode, children |-> children]
FileMacro(name, mode, forwardContent, children) ==
  [k |-> "File", name |-> name, mode |-> mode,
   forwardContent |-> forwardContent, children |-> children]
\* The effect of the tests: its children once ctx.mustMakeProgress(), else null.
ProgressGate(children) == [k |-> "gate", children |-> children]
\* A lifecycle that was not given the children.
Lifecycle_NoChildren(path, children) ==
  [k |-> "lifecycle", path |-> path, children |-> [k |-> "str", s |-> << >>]]
\* What the effect function of Dir returns: <lifecycle pre post>children
Lifecycle(path, children) ==
  [k |-> "lifecycle", path |-> path, children |-> children]
\* A map whose function does not see forwardContent.
Map_NoForward(path, mode, forwardContent, children) ==
  [k |-> "map", path |-> path, mode |-> mode,
   forwardContent |-> FALSE, children |-> children]
\* <ConfigFs fs>children</ConfigFs>
ConfigFs(fs, children) == [k |-> "config", fs |-> fs, children |-> children]
\* What the effect function of File returns: <map fun>children</map>
Map(path, mode, forwardContent, children) ==
  [k |-> "map", path |-> path, mode |-> mode,
   forwardContent |-> forwardContent, children |-> children]

\* An effect that calls function fn of the package and evaluates to the
\* empty string, whatever the function returned.
Call(fn) == [k |-> "call", fn |-> fn]

\* The arguments such an effect calls the function with: the path foo, for
\* copy and move the destination bar, the data ha, and no mode.
CallArgs ==
  [path |-> PathRelative(<< foo >>, 0), dst |-> PathRelative(<< bar >>, 0),
   data |-> ha, mode |-> "undefined"]

\* <Chmod .../> and the other macros around Deno, in one of the two forms,
\* with the props given: an <impure>, but for WriteTextFile a <map> around
\* its children, the string ha.
DenoMacro(name, form, props) ==
  [k |-> "deno", name |-> name, form |-> form, props |-> props,
   wrapper |-> IF name = "WriteTextFile" THEN "map" ELSE "impure",
   children |-> [k |-> "str", s |-> ha]]

\* The forms of the macros around Deno a document uses.
DenoFormsOf(e) ==
  IF e.k = "deno" THEN { e.form }
  ELSE IF e.k = "fragment"
  THEN { e.xs[i].form : i \in { j \in DOMAIN e.xs : e.xs[j].k = "deno" } }
  ELSE { }

\* An effect that calls currentFile(ctx) and evaluates to the empty string.
CurrentFileProbe == [k |-> "probe"]

IsStr(e) == e.k = "str"
Null == [k |-> "null"]
Pending == [k |-> "pending"]

Eval(e) == [m |-> "eval", e |-> e]
Ret(e) == [m |-> "ret", e |-> e]

FragmentFrame(done, todo) == [k |-> "fragment", done |-> done, todo |-> todo]
LifecycleFrame(path) == [k |-> "lifecycle", path |-> path]
ConfigFrame(fs) == [k |-> "config", fs |-> fs]

\* A value of type null | string.
NullName == [isNull |-> TRUE, name |-> EmptyString]
SomeName(n) == [isNull |-> FALSE, name |-> n]

\* Context.createScopedState(() => null): every FileNameStateScope starts
\* with the state null, and so does the Context outside of any scope.
FileNameStateInit == NullName

\* The children of the map of File are wrapped in <FileNameStateScope>, so
\* the frame of the map holds the state of that scope.  The package keeps
\* no setter for the state (it is bound to _), so the state stays what the
\* scope started with.
MapFrame(path, mode, forwardContent) ==
  [k |-> "map", path |-> path, mode |-> mode,
   forwardContent |-> forwardContent, fileNameState |-> FileNameStateInit]

\* getCurrentFilename(ctx): the state of the closest surrounding
\* FileNameStateScope, or the initial state outside of every scope.
getCurrentFilename(s) ==
  LET I == { i \in DOMAIN s : s[i].k = "map" } IN
  IF I = { } THEN FileNameStateInit
  ELSE s[CHOOSE i \in I : \A j \in I : j <= i].fileNameState

\* currentFile(ctx)
currentFile(s) == getCurrentFilename(s)

RECURSIVE Concat(_)
\* The concatenation of a sequence of strings.
Concat(xs) == IF xs = << >> THEN EmptyString ELSE Head(xs).s \o Concat(Tail(xs))

\* A fragment whose items were all evaluated: a string when every item is one.
FragmentResult(done) ==
  IF \A i \in DOMAIN done : IsStr(done[i])
  THEN Str(Concat(done))
  ELSE Fragment(done)

\* When the engine acts on the halt flag a callback set without throwing:
\*   "EndOfRound":    only between rounds; the round runs to its end;
\*   "SkipCallbacks": it evaluates no further expression, and the lifecycles
\*                    it is inside of still run their post;
\*   "Abort":         it stops at once, as for a thrown halt.
\* Every policy makes ctx.evaluate return null.
HaltPolicies == { "EndOfRound", "SkipCallbacks", "Abort" }

RECURSIVE Settle(_, _, _)
\* The engine's own steps from a control state up to the next callback of
\* the package (or the end of the round): strings evaluate to themselves,
\* fragments evaluate their items in order, a map evaluates its children
\* first, and an expression that is not yet a string is kept for the next
\* round.  skipping: the engine evaluates no further expression.
Settle(c, s, skipping) ==
  IF c.m = "eval"
  THEN IF skipping \/ IsStr(c.e) THEN Settle(Ret(c.e), s, skipping)
       ELSE CASE c.e.k = "fragment" ->
                   IF c.e.xs = << >>
                   THEN Settle(Ret(Str(EmptyString)), s, skipping)
                   ELSE Settle(Eval(Head(c.e.xs)),
                               Append(s, FragmentFrame(<< >>, Tail(c.e.xs))),
                               skipping)
              [] c.e.k = "config" ->
                   Settle(Eval(c.e.children), Append(s, ConfigFrame(c.e.fs)),
                          skipping)
              [] c.e.k = "map" ->
                   Settle(Eval(c.e.children),
                          Append(s, MapFrame(c.e.path, c.e.mode,
                                             c.e.forwardContent)),
                          skipping)
              [] OTHER -> [ctl |-> c, stack |-> s]
  ELSE IF s = << >> THEN [ctl |-> c, stack |-> s]
       ELSE LET t == Top(s) IN
            CASE t.k = "fragment" ->
                   IF t.todo = << >>
                   THEN Settle(Ret(FragmentResult(Append(t.done, c.e))),
                               Pop(s), skipping)
                   ELSE Settle(Eval(Head(t.todo)),
                               Append(Pop(s),
                                      FragmentFrame(Append(t.done, c.e),
                                                    Tail(t.todo))),
                               skipping)
              [] t.k = "map" ->
                   IF IsStr(c.e) /\ ~skipping
                   THEN [ctl |-> c, stack |-> s]
                   ELSE Settle(Ret(Map(t.path, t.mode, t.forwardContent, c.e)),
                               Pop(s), skipping)
              [] t.k = "config" ->
                   Settle(Ret(IF IsStr(c.e) THEN c.e
                              ELSE ConfigFs(t.fs, c.e)),
                          Pop(s), skipping)
              [] t.k = "lifecycle" -> [ctl |-> c, stack |-> s]

-----------------------------------------------------------------------------
(* The callbacks *)

\* What every callback does with the world it leaves: the variables of the
\* backend and of the Context, and the engine's next position.  A thrown
\* halt ends ctx.evaluate at once with null, and no post is run.
Leave(w, c, s, progress) ==
  /\ files' = (IF w.fs = "inner" THEN files ELSE w.files)
  /\ cwd' = (IF w.fs = "inner" THEN cwd ELSE w.cwd)
  /\ innerFiles' = (IF w.fs = "inner" THEN w.files ELSE innerFiles)
  /\ innerCwd' = (IF w.fs = "inner" THEN w.cwd ELSE innerCwd)
  /\ calls' = w.calls
  /\ errors' = w.errors
  /\ log' = w.log
  /\ seen' = w.seen
  /\ haltExecution' = w.haltExecution
  /\ madeProgressThisRound' = (madeProgressThisRound \/ progress)
  /\ IF w.thrown \/ (w.haltExecution /\ haltPolicy = "Abort")
     THEN /\ pc' = "done"
          /\ result' = Null
          /\ ctl' = Ret(Null)
          /\ stack' = << >>
     ELSE LET n == Settle(c, s, w.haltExecution /\ haltPolicy = "SkipCallbacks")
          IN  /\ ctl' = n.ctl
              /\ stack' = n.stack
              /\ pc' = "running"
              /\ result' = result
  /\ UNCHANGED << doc, fsConfig, haltPolicy, files0, mustMakeProgress, round >>

\* Dir, effect function: the name is validated, the directory made, and the
\* lifecycle around the children returned whatever mkdir returned.
Dir ==
  /\ pc = "running" /\ ctl.m = "eval" /\ ctl.e.k = "Dir"
  /\ LET p == nameToRelativePath(World, ctl.e.name) IN
     IF p.w.thrown
     THEN Leave(p.w, ctl, stack, FALSE)
     ELSE Leave(mkdir(p.w, p.path, ctl.e.mode),
                Eval(Lifecycle(p.path, ctl.e.children)), stack, TRUE)

\* Dir, lifecycle pre: cd into the directory, then the children.
DirPre ==
  /\ pc = "running" /\ ctl.m = "eval" /\ ctl.e.k = "lifecycle"
  /\ Leave(cd(World, ctl.e.path), Eval(ctl.e.children),
           Append(stack, LifecycleFrame(ctl.e.path)), FALSE)

\* Dir, lifecycle post: cd one level up; the lifecycle is kept when its
\* children are not yet a string.
DirPost ==
  /\ pc = "running" /\ ctl.m = "ret" /\ stack # << >>
  /\ Top(stack).k = "lifecycle"
  /\ Leave(cd(World, AscendOne),
           Ret(IF IsStr(ctl.e) THEN ctl.e
               ELSE Lifecycle(Top(stack).path, ctl.e)),
           Pop(stack), FALSE)

\* File, effect function: the name is validated and the map around the
\* children returned.
File ==
  /\ pc = "running" /\ ctl.m = "eval" /\ ctl.e.k = "File"
  /\ LET p == nameToRelativePath(World, ctl.e.name) IN
     IF p.w.thrown
     THEN Leave(p.w, ctl, stack, FALSE)
     ELSE Leave(p.w,
                Eval(Map(p.path, ctl.e.mode, ctl.e.forwardContent,
                         ctl.e.children)),
                stack, TRUE)

\* File, map function: the evaluated children are written, and the File is
\* the empty string or, with forwardContent, what was written.
FileMap ==
  /\ pc = "running" /\ ctl.m = "ret" /\ stack # << >>
  /\ Top(stack).k = "map" /\ IsStr(ctl.e)
  /\ LET t == Top(stack) IN
     Leave(writeString(World, t.path, ctl.e.s, t.mode),
           Eval(IF t.forwardContent THEN ctl.e ELSE Str(EmptyString)),
           Pop(stack), FALSE)

\* An effect that calls a function of the package and keeps what it
\* returned.
CallFunction ==
  /\ pc = "running" /\ ctl.m = "eval" /\ ctl.e.k = "call"
  /\ LET r == PackageCall(World, ctl.e.fn, CallArgs) IN
     Leave(IF r.thrown THEN r
           ELSE [r EXCEPT !.seen = Append(@, [fn |-> ctl.e.fn,
                                              value |-> r.value])],
           Ret(Str(EmptyString)), stack, TRUE)

\* The import of the file the document's macros come from: a file that
\* does not load ends the program before anything is evaluated.
LoadModule ==
  /\ pc = "loading"
  /\ pc' = IF \A f \in DenoFormsOf(doc) : ModuleLoads(f)
           THEN "running" ELSE "failed"
  /\ UNCHANGED << doc, fsConfig, innerFiles, innerCwd, haltPolicy, files0,
                  files, cwd, calls, errors, log, seen, haltExecution,
                  madeProgressThisRound, mustMakeProgress, round, ctl, stack,
                  result >>

\* The function of a macro around Deno (handed to <impure>, for
\* WriteTextFile to <map> around children that are a string already): the
\* operation is run and ends in one of the ways it can, and the macro
\* evaluates to what the function returned; a returned halt is no string,
\* and the macro stays.  An unhandled rejection ends the process, at once
\* or after the evaluation.
DenoImpure ==
  /\ pc = "running" /\ ctl.m = "eval" /\ ctl.e.k = "deno"
  /\ \E o \in Outcomes(ctl.e.name, ctl.e.form), atOnce \in BOOLEAN :
       LET r == DenoFunction(World, ctl.e.name, ctl.e.form, ctl.e.props,
                             ctl.e.children.s, o)
           w == [r EXCEPT !.seen = Append(@, [fn |-> ctl.e.name, value |-> o])]
       IN  IF r.unhandledRejection /\ atOnce
           THEN /\ pc' = "failed"
                /\ seen' = w.seen
                /\ UNCHANGED << doc, fsConfig, innerFiles, innerCwd,
                                haltPolicy, files0, files, cwd, calls, errors,
                                log, haltExecution, madeProgressThisRound,
                                mustMakeProgress, round, ctl, stack, result >>
           ELSE Leave(w,
                      IF "returned" \in DOMAIN r.value
                      THEN Ret(Str(r.value.returned)) ELSE Ret(ctl.e),
                      stack, "returned" \in DOMAIN r.value)

\* An effect that asks currentFile(ctx) for the File it is in.
ReadCurrentFile ==
  /\ pc = "running" /\ ctl.m = "eval" /\ ctl.e.k = "probe"
  /\ Leave([World EXCEPT !.seen = Append(@, [fn |-> "currentFile",
                                             value |-> currentFile(stack)])],
           Ret(Str(EmptyString)), stack, TRUE)

\* The effect of the tests: null (try again next round) until the engine
\* says that progress must be made.
Gate ==
  /\ pc = "running" /\ ctl.m = "eval" /\ ctl.e.k = "gate"
  /\ IF mustMakeProgress
     THEN Leave(World, Eval(ctl.e.children), stack, TRUE)
     ELSE Leave(World, Ret(ctl.e), stack, FALSE)

\* The end of a round of ctx.evaluate: a string is the result (null when
\* halted); otherwise the next round starts, and must make progress when
\* this one made none.
EndRound ==
  /\ pc = "running" /\ ctl.m = "ret" /\ stack = << >>
  /\ UNCHANGED << doc, fsConfig, haltPolicy, files0, files, cwd, calls,
                  innerFiles, innerCwd, log, seen, haltExecution >>
  /\ IF haltExecution
     THEN /\ pc' = "done" /\ result' = Null
          /\ UNCHANGED << ctl, stack, errors, madeProgressThisRound,
                          mustMakeProgress, round >>
     ELSE IF IsStr(ctl.e)
     THEN /\ pc' = "done" /\ result' = ctl.e
          /\ UNCHANGED << ctl, stack, errors, madeProgressThisRound,
                          mustMakeProgress, round >>
     ELSE IF ~madeProgressThisRound /\ mustMakeProgress
     THEN /\ pc' = "done" /\ result' = Null /\ errors' = errors + 1
          /\ UNCHANGED << ctl, stack, madeProgressThisRound,
                          mustMakeProgress, round >>
     ELSE LET n == Settle(Eval(ctl.e), << >>, FALSE) IN
          /\ ctl' = n.ctl /\ stack' = n.stack
          /\ mustMakeProgress' = ~madeProgressThisRound
          /\ madeProgressThisRound' = FALSE
          /\ round' = round + 1
          /\ UNCHANGED << pc, result, errors >>

-----------------------------------------------------------------------------
(* The documents evaluated and the backends they are evaluated against *)

Modes == { "undefined", "timid", "placid", "assertive" }
ValidNames == { foo, bar }
InvalidNames == { EmptyString, Dot, DotDot, WithSlash }

\* The File declarations that occur anywhere in a document: foo in every
\* mode, bar and an invalid name without a mode.
Files ==
  { FileMacro(foo, m, FALSE, Str(ha)) : m \in Modes }
    \cup { FileMacro(bar, "undefined", FALSE, Str(ha)),
           FileMacro(EmptyString, "undefined", FALSE, Str(ha)) }

\* The Dir declarations with children from S: foo in every mode, bar
\* without a mode.
Dirs(S) ==
  { DirMacro(foo, m, c) : m \in Modes, c \in S }
    \cup { DirMacro(bar, "undefined", c) : c \in S }

\* Each macro around Deno in each form, with and without the optional
\* props, alone and before some text.
DenoDocuments ==
  UNION { { DenoMacro(n, f, p) : n \in MacrosOf(f), p \in PropSets } :
          f \in Forms }
    \cup { Fragment(<< DenoMacro(n, f, "required"), Str(hi) >>) :
             n \in { "Mkdir", "EnsureDir" }, f \in Forms }

\* Documents that ask for the current File: outside of any File, in the
\* children of a File, of a File in a File, of a Dir in a File, of a Dir, and
\* beside a File.
ProbeDocuments ==
  { CurrentFileProbe,
    FileMacro(foo, "undefined", FALSE, CurrentFileProbe),
    FileMacro(foo, "undefined", FALSE,
              FileMacro(bar, "undefined", FALSE, CurrentFileProbe)),
    FileMacro(foo, "undefined", FALSE,
              DirMacro(bar, "undefined", CurrentFileProbe)),
    DirMacro(foo, "undefined", CurrentFileProbe),
    Fragment(<< FileMacro(foo, "undefined", FALSE, Str(ha)),
                CurrentFileProbe >>) }

\* A declaration whose children wait for a later round, before a sibling
\* File, and the same without the wait.
LateSiblings ==
  { Fragment(<< a, FileMacro(bar, "undefined", FALSE, Str(ha)) >>) :
      a \in { DirMacro(foo, "undefined",
                       ProgressGate(FileMacro(foo, "undefined", FALSE,
                                              Str(ha)))),
              DirMacro(foo, "undefined",
                       FileMacro(foo, "undefined", FALSE, Str(ha))),
              FileMacro(foo, "undefined", FALSE, ProgressGate(Str(ha))) } }

\* What else is evaluated on its own: forwarded content, concatenated
\* children, every kind of invalid name, a File declared in the children of
\* a File.
TopOnly ==
  { FileMacro(foo, m, TRUE, Fragment(<< Str(hi), Str(ha) >>)) :
      m \in { "placid", "assertive" } }
    \cup { FileMacro(n, "undefined", FALSE, Str(ha)) : n \in InvalidNames }
    \cup { DirMacro(n, "undefined", Str(ha)) : n \in InvalidNames }
    \cup { FileMacro(n, "undefined", FALSE,
                     FileMacro(bar, "undefined", FALSE, Str(ha))) :
             n \in { EmptyString, foo } }
    \cup { FileMacro(bar, "undefined", FALSE, x) :
             x \in { FileMacro(foo, "undefined", FALSE, Str(ha)),
                     FileMacro(EmptyString, "undefined", FALSE, Str(ha)),
                     Call("mkdir") } }
    \cup ProbeDocuments
    \cup LateSiblings

\* The declarations of S a test would gate or put before a sibling.
Plain(S) ==
  { x \in S : /\ x.k \in { "Dir", "File" }
              /\ x.mode = "undefined"
              /\ isComponent(x.name)
              /\ x.children.k \in { "str", "File", "Dir" } }

\* The File that follows a declaration as its sibling.
Sibling == FileMacro(bar, "undefined", FALSE, Str(ha))

\* The children a Dir is given, built from the declarations S: one of them,
\* one behind the progress gate, one followed by a sibling File, or both.
Bodies(S) ==
  S \cup { ProgressGate(x) : x \in Plain(S) }
    \cup { Fragment(<< x, Sibling >>) : x \in Plain(S) }
    \cup { ProgressGate(Fragment(<< x, Sibling >>)) : x \in Plain(S) }

RECURSIVE Docs(_)
\* The documents with Dirs nested at most d deep.
Docs(d) ==
  IF d = 0 THEN { Str(hi) } \cup Files
  ELSE Docs(d - 1) \cup Dirs(Bodies(Docs(d - 1)))

Documents == Bodies(Docs(MaxDepth)) \cup TopOnly

\* Documents with a ConfigFs of their own around the declarations x: alone,
\* before a sibling, and in the children of a Dir, before a sibling.
Scoped(x) ==
  { ConfigFs("inner", x),
    Fragment(<< ConfigFs("inner", x), Sibling >>),
    DirMacro(foo, "undefined",
             Fragment(<< ConfigFs("inner", x), Sibling >>)) }

NestedDocuments ==
  UNION { Scoped(x) :
            x \in { FileMacro(foo, "undefined", FALSE, Str(ha)),
                    DirMacro(foo, "undefined", Sibling),
                    DirMacro(foo, "undefined", ProgressGate(Sibling)),
                    DirMacro(foo, "undefined",
                             FileMacro(EmptyString, "undefined", FALSE,
                                       Str(ha))),
                    Call("cd"), Call("mkdir") } }

\* MemoryFs.fromLiteral: {}, {foo: "zzz"}, {foo: {}}, {foo: {bar: "zzz"}}
EmptyFs == (Root :> DirEntry)
Backends ==
  { EmptyFs,
    (<< foo >> :> DataEntry(zzz)) @@ EmptyFs,
    (<< foo >> :> DirEntry) @@ EmptyFs,
    (<< foo, bar >> :> DataEntry(zzz)) @@ (<< foo >> :> DirEntry) @@ EmptyFs }

-----------------------------------------------------------------------------
(* The specification *)

\* ctx.evaluate(doc) on a fresh Context, inside <ConfigFs fs={memFs}>,
\* inside a ConfigFs with a test double for the backend, or without any
\* configuration.
Init ==
  /\ \/ /\ fsConfig = "memFs" /\ files0 \in Backends
        /\ haltPolicy \in HaltPolicies
        /\ doc \in Documents \cup { Call(fn) : fn \in BackedFunctions }
                     \cup NestedDocuments
     \/ /\ fsConfig \in { "stub", "failingStub" } /\ files0 = EmptyFs
        /\ haltPolicy \in HaltPolicies
        /\ doc \in { Call(fn) : fn \in PackageFunctions }
     \/ /\ fsConfig = "null" /\ files0 = EmptyFs
        /\ haltPolicy = "EndOfRound"
        /\ doc \in Documents \cup { Call(fn) : fn \in PackageFunctions }
                     \cup DenoDocuments
  /\ files = files0
  /\ cwd = Root
  /\ innerFiles = EmptyFs
  /\ innerCwd = Root
  /\ calls = << >>
  /\ errors = 0
  /\ log = << >>
  /\ seen = << >>
  /\ haltExecution = FALSE
  /\ madeProgressThisRound = FALSE
  /\ mustMakeProgress = FALSE
  /\ round = 1
  /\ ctl = Settle(Eval(doc), << >>, FALSE).ctl
  /\ stack = Settle(Eval(doc), << >>, FALSE).stack
  /\ pc = IF DenoFormsOf(doc) = { } THEN "running" ELSE "loading"
  /\ result = Pending

Next ==
  \/ LoadModule
  \/ Dir
  \/ DirPre
  \/ DirPost
  \/ File
  \/ FileMap
  \/ CallFunction
  \/ ReadCurrentFile
  \/ DenoImpure
  \/ Gate
  \/ EndRound

Spec == Init /\ [][Next]_vars

-----------------------------------------------------------------------------
(* What the claims speak of *)

\* The entries and the current directory of the backend the closest
\* surrounding ConfigFs provides.
CurrentFiles == World.files
CurrentCwd == World.cwd

\* The step leaves backend b with entries f, with current directory d, and
\* the other backend as it was.
FilesBecome(b, f) ==
  IF b = "inner" THEN innerFiles' = f /\ files' = files
  ELSE files' = f /\ innerFiles' = innerFiles
CwdBecomes(b, d) ==
  IF b = "inner" THEN innerCwd' = d /\ cwd' = cwd
  ELSE cwd' = d /\ innerCwd' = innerCwd

\* The evaluation is inside a nested ConfigFs.
InInnerScope == \E i \in DOMAIN stack : stack[i].k = "config"

\* The directory the Dirs around the outermost nested ConfigFs lead to.
OuterDirs(s) ==
  LET I == { i \in DOMAIN s : s[i].k = "config" } IN
  IF I = { } THEN EnclosingDirs(s)
  ELSE EnclosingDirs(SubSeq(s, 1, (CHOOSE i \in I : \A j \in I : i <= j) - 1))

RECURSIVE CallsOf(_)
\* The functions of the package the effects of e call themselves.
CallsOf(e) ==
  CASE e.k = "call" -> { e.fn }
    [] e.k = "fragment" ->
         UNION { CallsOf(e.xs[i]) : i \in DOMAIN e.xs }
    [] e.k \in { "Dir", "File", "gate", "config" } -> CallsOf(e.children)
    [] OTHER -> { }

RECURSIVE CountOf(_, _)
\* The number of declarations of kind k (Dir or File) in e.
CountOf(e, k) ==
  CASE e.k = "fragment" ->
         IF e.xs = << >> THEN 0
         ELSE CountOf(Head(e.xs), k) + CountOf(Fragment(Tail(e.xs)), k)
    [] e.k \in { "Dir", "File" } ->
         (IF e.k = k THEN 1 ELSE 0) + CountOf(e.children, k)
    [] e.k \in { "gate", "config" } -> CountOf(e.children, k)
    [] OTHER -> 0

RECURSIVE TextOf(_)
\* The string the children of a File evaluate to.
TextOf(e) ==
  CASE e.k = "str" -> e.s
    [] e.k = "fragment" ->
         IF e.xs = << >> THEN EmptyString
         ELSE TextOf(Head(e.xs)) \o TextOf(Fragment(Tail(e.xs)))

RECURSIVE Declared(_, _, _)
\* The entries f with the tree the declarations of e describe added in
\* directory d.
Declared(e, d, f) ==
  CASE e.k = "Dir" ->
         Declared(e.children, d \o << e.name >>,
                  ((d \o << e.name >>) :> DirEntry) @@ f)
    [] e.k = "File" ->
         ((d \o << e.name >>) :> DataEntry(TextOf(e.children))) @@ f
    [] e.k = "gate" -> Declared(e.children, d, f)
    [] e.k = "fragment" ->
         IF e.xs = << >> THEN f
         ELSE Declared(Fragment(Tail(e.xs)), d, Declared(Head(e.xs), d, f))
    [] OTHER -> f

RECURSIVE NamesOf(_)
\* The names the declarations of e give to entries of the directory they
\* are evaluated in, in document order.
NamesOf(e) ==
  CASE e.k \in { "Dir", "File" } -> << e.name >>
    [] e.k = "gate" -> NamesOf(e.children)
    [] e.k = "fragment" ->
         IF e.xs = << >> THEN << >>
         ELSE NamesOf(Head(e.xs)) \o NamesOf(Fragment(Tail(e.xs)))
    [] OTHER -> << >>

Distinct(xs) == \A i, j \in DOMAIN xs : i # j => xs[i] # xs[j]

RECURSIVE IsTree(_)
\* e is a tree of Dir and File declarations: valid names, distinct within a
\* directory, Files of text that is not forwarded, nothing but declarations
\* in a Dir.
IsTree(e) ==
  CASE e.k = "Dir" ->
         /\ isComponent(e.name)
         /\ e.children.k # "str"
         /\ Distinct(NamesOf(e.children))
         /\ IsTree(e.children)
    [] e.k = "File" ->
         /\ isComponent(e.name)
         /\ ~e.forwardContent
         /\ e.children.k \in { "str", "fragment" }
    [] e.k = "gate" -> IsTree(e.children)
    [] e.k = "fragment" -> \A i \in DOMAIN e.xs : IsTree(e.xs[i])
    [] OTHER -> FALSE

-----------------------------------------------------------------------------
(* The claims *)

\* C1: when an evaluation has ended, also one that halted inside the
\* children of nested Dirs, the backend's current directory is the one from
\* before the evaluation.  Stated for the engine that runs every round to
\* its end, which runs every post it can, and for documents that do not
\* call cd themselves.
C1_CwdRestoredAfterEvaluation ==
  (pc = "done" /\ haltPolicy = "EndOfRound" /\ "cd" \notin CallsOf(doc)) =>
    cwd = Root

\* C2: while the children of nested Dirs d1, ..., dn are evaluated, the
\* current directory is the one from before d1 extended by d1/.../dn, and
\* a backend method called there resolves its relative path in it.
C2_CwdIsEnclosingDirs ==
  (pc = "running" /\ "cd" \notin CallsOf(doc)) =>
    /\ CurrentCwd = EnclosingDirs(stack)
    /\ \A i \in DOMAIN calls :
         calls[i].op.name \in { "mkdir", "writeString" } =>
           /\ calls[i].at = calls[i].inside
           /\ IsPrefix(calls[i].inside,
                       FsResolve(calls[i].at, calls[i].op.path))

\* C2, its case: a child of two nested Dirs is about to write.
C2_Witness ==
  /\ pc = "running" /\ ctl.m = "ret" /\ stack # << >>
  /\ Top(stack).k = "map"
  /\ NumEnclosingDirs(stack) = 2
  /\ cwd = EnclosingDirs(stack)

\* C3: the declaration evaluated next after a Dir's post, a sibling or one
\* of an enclosing scope, is evaluated in the directory of the Dir's parent;
\* this is so in every round the Dir's children are tried in.
C3_SiblingSeesParentDirectory ==
  [][ ( /\ pc = "running" /\ ctl.m = "ret" /\ stack # << >>
        /\ Top(stack).k = "lifecycle"
        /\ pc' = "running" )
      => ( /\ CwdBecomes(World.fs, Parent(CurrentCwd))
           /\ CurrentCwd' = EnclosingDirs(stack')
           /\ CurrentCwd = Parent(CurrentCwd) \o Top(stack).path.components
         ) ]_vars

\* C3, its case: the File after a Dir whose children were not fully
\* evaluated this round is about to be evaluated, in the parent's directory.
C3_Witness ==
  /\ pc = "running" /\ ctl.m = "eval" /\ ctl.e.k = "File"
  /\ stack # << >> /\ Top(stack).k = "fragment"
  /\ Top(stack).done # << >>
  /\ Top(stack).done[Len(Top(stack).done)].k = "lifecycle"
  /\ cwd = EnclosingDirs(stack)

\* C4: a tree of Dir and File declarations with distinct names per
\* directory, evaluated against an empty backend, leaves exactly the
\* declared tree, evaluates to the empty string and records no error.
C4_DeclaredTreeIsBuilt ==
  ( /\ pc = "done" /\ fsConfig = "memFs" /\ files0 = EmptyFs
    /\ IsTree(doc) /\ Distinct(NamesOf(doc)) ) =>
    /\ files = Declared(doc, Root, EmptyFs)
    /\ result = Str(EmptyString)
    /\ errors = 0
    /\ ~haltExecution

\* C4, its case: the tree of the tests, Dir { Dir { File }, File } behind
\* the progress gate, has been built.
C4_Witness ==
  /\ pc = "done" /\ files0 = EmptyFs /\ IsTree(doc)
  /\ doc.k = "Dir" /\ doc.children.k = "gate"
  /\ Len(NamesOf(doc.children)) = 2
  /\ Cardinality(DOMAIN files) = 5
  /\ result = Str(EmptyString)

-----------------------------------------------------------------------------
(* Declarations at work *)

\* The effect function of a Dir is about to run.
AtDir == pc = "running" /\ ctl.m = "eval" /\ ctl.e.k = "Dir"

\* The map function of a File is about to run on the evaluated children.
AtFileMap ==
  /\ pc = "running" /\ ctl.m = "ret" /\ stack # << >>
  /\ Top(stack).k = "map" /\ IsStr(ctl.e)

\* What is at the name the Dir or the File is about to create, if anything.
DirTarget == CurrentCwd \o << ctl.e.name >>
FileTarget == FsResolve(CurrentCwd, Top(stack).path)

\* The document is one declaration of kind k in mode m, evaluated against a
\* configured backend.
DocIs(k, m) ==
  /\ fsConfig = "memFs" /\ doc.k = k /\ doc.mode = m
  /\ isComponent(doc.name)

\* What was at the document's name before the evaluation.
DocTargetBefore == FsStat(files0, << doc.name >>)

\* The effect function of the document's Dir has just returned.
DocDirMade ==
  /\ pc = "running" /\ round = 1 /\ stack = << >>
  /\ ctl.m = "eval" /\ ctl.e.k = "lifecycle"

\* Entry p lies below directory d, at a name a declaration of e gives.
NamedBy(e, d, p) ==
  /\ Len(p) > Len(d) /\ IsPrefix(d, p)
  /\ \E i \in DOMAIN NamesOf(e) : p[Len(d) + 1] = NamesOf(e)[i]

\* The step left the backend and the Context in world w.
LeftIn(w) ==
  /\ FilesBecome(w.fs, w.files) /\ CwdBecomes(w.fs, w.cwd)
  /\ errors' = w.errors /\ haltExecution' = w.haltExecution
  /\ (w.thrown => pc' = "done")

-----------------------------------------------------------------------------

\* C6: a Dir or a File without a mode does, in every state of the backend
\* it meets, what the same declaration with mode "timid" does: the same
\* entries, current directory, errors and halt.
C6_NoModeIsTimid ==
  [][ /\ ( AtDir /\ ctl.e.mode = "undefined" /\ isComponent(ctl.e.name) ) =>
           LeftIn(mkdir(World, PathRelative(<< ctl.e.name >>, 0), "timid"))
      /\ ( AtFileMap /\ Top(stack).mode = "undefined" ) =>
           LeftIn(writeString(World, Top(stack).path, ctl.e.s, "timid"))
    ]_vars

\* C6, its case: a Dir without a mode met an existing entry, and did what
\* a timid Dir does there: the call failed, two errors, halt, nothing changed.
C6_Witness ==
  /\ DocIs("Dir", "undefined") /\ DocTargetBefore # "nothing"
  /\ calls # << >> /\ calls[1].op.mode = "undefined" /\ calls[1].threw
  /\ errors = 2 /\ haltExecution /\ files = files0

\* C7: a placid File whose target exists writes nothing: entries, current
\* directory, errors and halt flag are as before, and without
\* forwardContent the File is the empty string.
C7_PlacidFileWritesNothing ==
  [][ ( /\ AtFileMap /\ Top(stack).mode = "placid"
        /\ FsStat(CurrentFiles, FileTarget) # "nothing" )
      => ( /\ files' = files /\ cwd' = cwd
           /\ innerFiles' = innerFiles /\ innerCwd' = innerCwd
           /\ errors' = errors /\ haltExecution' = haltExecution
           /\ ( (~Top(stack).forwardContent /\ Len(stack) = 1) =>
                  (ctl' = Ret(Str(EmptyString)) /\ stack' = << >>) ) ) ]_vars

\* C7, its case: the placid File over existing data was evaluated, to the
\* empty string, and nothing changed.
C7_Witness ==
  /\ DocIs("File", "placid") /\ ~doc.forwardContent
  /\ DocTargetBefore = "data"
  /\ pc = "done" /\ result = Str(EmptyString)
  /\ files = files0 /\ errors = 0

\* C8: a placid Dir over an existing directory does not recreate it: what
\* was in it under a name no child declares stays as it was, the Dir itself
\* records no error, and its children are evaluated inside it.
C8_PlacidDirKeepsDirectory ==
  ( DocIs("Dir", "placid") /\ DocTargetBefore = "directory" ) =>
    /\ \A p \in DOMAIN files0 :
         ~NamedBy(doc.children, << doc.name >>, p) =>
           (p \in DOMAIN files /\ files[p] = files0[p])
    /\ DocDirMade => (files = files0 /\ errors = 0 /\ ~haltExecution)
    /\ (pc = "running" /\ stack # << >>) =>
         (stack[1].k = "lifecycle" /\ IsPrefix(<< doc.name >>, cwd))
    /\ \A i \in DOMAIN calls :
         calls[i].op.name \in { "mkdir", "writeString" } /\ i > 1 =>
           IsPrefix(<< doc.name >>, calls[i].at)
    /\ (pc = "done" /\ errors = 0) =>
         files = Declared(doc.children, << doc.name >>, files0)

\* C8, its case: the placid Dir over a directory holding bar has added its
\* child foo inside, and bar is still there.
C8_Witness ==
  /\ DocIs("Dir", "placid") /\ DocTargetBefore = "directory"
  /\ pc = "done" /\ errors = 0
  /\ << doc.name, bar >> \in DOMAIN files0
  /\ << doc.name, bar >> \in DOMAIN files
  /\ << doc.name, foo >> \in DOMAIN files
  /\ << doc.name, foo >> \notin DOMAIN files0

\* C9: a placid declaration over an entry of the other kind (a File over a
\* directory, a Dir over data) leaves the entry as it is, records no error
\* and does not halt.
C9_PlacidOverOtherKind ==
  /\ ( DocIs("File", "placid") /\ DocTargetBefore = "directory" ) =>
       /\ files = files0 /\ errors = 0 /\ ~haltExecution
       /\ pc = "done" => result = Str(IF doc.forwardContent
                                      THEN TextOf(doc.children)
                                      ELSE EmptyString)
  /\ ( DocIs("Dir", "placid") /\ DocTargetBefore = "data" ) =>
       /\ files = files0
       /\ DocDirMade => (errors = 0 /\ ~haltExecution)
       /\ (pc = "done" /\ IsStr(doc.children)) =>
            (errors = 0 /\ ~haltExecution /\ result = doc.children)

\* C9, its case: the placid Dir over data was evaluated to its children.
C9_Witness ==
  /\ DocIs("Dir", "placid") /\ DocTargetBefore = "data"
  /\ pc = "done" /\ result = Str(hi) /\ errors = 0
  /\ files = files0

\* C10: an assertive declaration over an existing entry replaces it without
\* an error: a File by data holding the evaluated children, a Dir by a
\* fresh directory that holds nothing it held before and only what its
\* children create.
C10_AssertiveReplaces ==
  /\ ( DocIs("File", "assertive") /\ DocTargetBefore # "nothing"
       /\ pc = "done" ) =>
       /\ files = (<< doc.name >> :> DataEntry(TextOf(doc.children)))
                    @@ FsWithout(files0, << doc.name >>)
       /\ errors = 0 /\ result # Null
  /\ ( DocIs("Dir", "assertive") /\ DocTargetBefore # "nothing" ) =>
       /\ DocDirMade =>
            /\ files = (<< doc.name >> :> DirEntry)
                         @@ FsWithout(files0, << doc.name >>)
            /\ errors = 0 /\ ~haltExecution
       /\ (pc = "running" /\ stack # << >>) \/ pc = "done" =>
            /\ FsStat(files, << doc.name >>) = "directory"
            /\ \A p \in DOMAIN files :
                 (IsPrefix(<< doc.name >>, p) /\ p # << doc.name >>) =>
                   /\ NamedBy(doc.children, << doc.name >>, p)
                   /\ (p \in DOMAIN files0 => files[p] # files0[p])
       /\ (pc = "done" /\ errors = 0) =>
            files = Declared(doc, Root, FsWithout(files0, << doc.name >>))

\* C10, its case: the assertive Dir over a directory that held bar is
\* done, and holds only the File its child created.
C10_Witness ==
  /\ DocIs("Dir", "assertive") /\ DocTargetBefore = "directory"
  /\ << doc.name, bar >> \in DOMAIN files0
  /\ pc = "done" /\ errors = 0
  /\ << doc.name, bar >> \notin DOMAIN files
  /\ << doc.name, foo >> \in DOMAIN files

-----------------------------------------------------------------------------

RECURSIVE ValueOf(_)
\* The string the macros of e are documented to evaluate to: a Dir to its
\* children, a File to the empty string or, with forwardContent, to its
\* children.
ValueOf(e) ==
  CASE e.k = "str" -> e.s
    [] e.k = "fragment" ->
         IF e.xs = << >> THEN EmptyString
         ELSE ValueOf(Head(e.xs)) \o ValueOf(Fragment(Tail(e.xs)))
    [] e.k = "Dir" -> ValueOf(e.children)
    [] e.k = "File" ->
         IF e.forwardContent THEN ValueOf(e.children) ELSE EmptyString
    [] e.k \in { "gate", "config" } -> ValueOf(e.children)
    [] e.k \in { "call", "probe", "deno" } -> EmptyString

\* An invalid-name Dir or File is about to be evaluated.
AtInvalidName ==
  /\ pc = "running" /\ ctl.m = "eval" /\ ctl.e.k \in { "Dir", "File" }
  /\ ~isComponent(ctl.e.name)

\* C11, as stated: where nothing exists at the target, a Dir makes the
\* directory and a File writes its data in every mode, timid, placid,
\* assertive or none, and no error is recorded.
C11_AbsentTargetIsCreated ==
  [][ /\ ( /\ AtDir /\ isComponent(ctl.e.name) /\ World.fs # "null"
           /\ FsStat(CurrentFiles, DirTarget) = "nothing" ) =>
             /\ FilesBecome(World.fs, (DirTarget :> DirEntry) @@ CurrentFiles)
             /\ errors' = errors /\ haltExecution' = haltExecution
             /\ log' = log
      /\ ( /\ AtFileMap /\ World.fs # "null"
           /\ FsStat(CurrentFiles, FileTarget) = "nothing" ) =>
             /\ FilesBecome(World.fs,
                            (FileTarget :> DataEntry(ctl.e.s)) @@ CurrentFiles)
             /\ errors' = errors /\ haltExecution' = haltExecution
             /\ log' = log
    ]_vars

\* C11, amended: where nothing exists at the target and the directory the
\* target is to be in exists as a directory, a Dir makes the directory and
\* a File writes its data in every mode, timid, placid, assertive or none,
\* and no error is recorded.
C11_AbsentTargetInDirectoryIsCreated ==
  [][ /\ ( /\ AtDir /\ isComponent(ctl.e.name) /\ World.fs # "null"
           /\ FsStat(CurrentFiles, DirTarget) = "nothing"
           /\ FsStat(CurrentFiles, CurrentCwd) = "directory" ) =>
             /\ FilesBecome(World.fs, (DirTarget :> DirEntry) @@ CurrentFiles)
             /\ errors' = errors /\ haltExecution' = haltExecution
             /\ log' = log
      /\ ( /\ AtFileMap /\ World.fs # "null"
           /\ FsStat(CurrentFiles, FileTarget) = "nothing"
           /\ FsStat(CurrentFiles, CurrentCwd) = "directory" ) =>
             /\ FilesBecome(World.fs,
                            (FileTarget :> DataEntry(ctl.e.s)) @@ CurrentFiles)
             /\ errors' = errors /\ haltExecution' = haltExecution
             /\ log' = log
    ]_vars

\* C11, its case: a placid Dir and, inside it, an assertive File were
\* created where nothing was.
C11_Witness ==
  /\ DocIs("Dir", "placid") /\ doc.children.k = "File"
  /\ doc.children.mode = "assertive"
  /\ files0 = EmptyFs /\ pc = "done" /\ errors = 0
  /\ files = (<< foo, foo >> :> DataEntry(ha)) @@ (<< foo >> :> DirEntry)
               @@ EmptyFs

\* C12: a Dir that did not halt evaluates to what its children evaluate
\* to, whether the directory was created, left alone or replaced.
C12_DirIsItsChildren ==
  ( doc.k = "Dir" /\ isComponent(doc.name) /\ fsConfig = "memFs"
    /\ pc = "done" /\ ~haltExecution ) =>
      result = Str(ValueOf(doc.children))

\* C12, its case: an assertive Dir replaced what was there, and is the
\* text its nested Dir has as children.
C12_Witness ==
  /\ DocIs("Dir", "assertive") /\ DocTargetBefore # "nothing"
  /\ doc.children.k = "Dir" /\ IsStr(doc.children.children)
  /\ pc = "done" /\ ~haltExecution
  /\ result = doc.children.children /\ result = Str(hi)

\* C13: a File that did not halt evaluates to the empty string without
\* forwardContent and to the text of its children with it, the same whether
\* it wrote or, placid over an existing entry, did not.
C13_FileResult ==
  ( doc.k = "File" /\ isComponent(doc.name) /\ fsConfig = "memFs"
    /\ pc = "done" /\ ~haltExecution ) =>
      result = Str(IF doc.forwardContent THEN ValueOf(doc.children)
                   ELSE EmptyString)

\* C13, its case: a placid File with forwardContent over an existing entry
\* wrote nothing and is the concatenation of its children.
C13_Witness ==
  /\ DocIs("File", "placid") /\ doc.forwardContent
  /\ DocTargetBefore # "nothing"
  /\ pc = "done" /\ files = files0 /\ errors = 0
  /\ result = Str(hi \o ha)

\* C14: a Dir or File with an invalid name ends the evaluation with null
\* and an error, calls no method of the backend, leaves the backend as it
\* is, and evaluates nothing more (so not the children of the File).
C14_InvalidNameTouchesNothing ==
  [][ AtInvalidName =>
        /\ calls' = calls /\ files' = files /\ cwd' = cwd
        /\ errors' = errors + 1 /\ haltExecution'
        /\ pc' = "done" /\ result' = Null /\ stack' = << >>
    ]_vars

\* C14, its case: the File named "" whose children declare a File ended
\* the evaluation with nothing called and nothing created.
C14_Witness ==
  /\ doc.k = "File" /\ doc.name = EmptyString /\ doc.children.k = "File"
  /\ fsConfig = "memFs"
  /\ pc = "done" /\ result = Null /\ errors = 1
  /\ calls = << >> /\ files = files0

\* The first message the package logged.
FirstError == log[1]

\* C15: the error for an invalid name says which name was given and what
\* was attempted: creating a directory for a Dir, creating a file for a
\* File; the rule for names comes with it.
C15_InvalidNameErrorIsDescriptive ==
  ( doc.k \in { "Dir", "File" } /\ ~isComponent(doc.name) /\ pc = "done" ) =>
    /\ FirstError.level = "error"
    /\ \E i \in DOMAIN FirstError.names : FirstError.names[i] = doc.name
    /\ FirstError.attempted = (IF doc.k = "Dir" THEN "create a directory"
                               ELSE "create a file")
    /\ \E j \in DOMAIN log :
         log[j].text = "The name must not contain any {}, must not be empty, and must not be {} or {}"

\* C16: without a configured fs no method of any backend is ever invoked,
\* and a document that declares a Dir or a File or calls a function of the
\* package ends with null, the halt flag set and an error recorded.
C16_UnconfiguredHalts ==
  fsConfig = "null" =>
    /\ calls = << >> /\ files = files0 /\ cwd = Root
    /\ ( /\ pc = "done"
         /\ \/ CountOf(doc, "Dir") + CountOf(doc, "File") > 0
            \/ CallsOf(doc) # { } ) =>
         /\ result = Null /\ haltExecution /\ errors = 1
         /\ FirstError.level = "error"
         /\ doc.k = "call" =>
              /\ FirstError.attempted = Explanation(doc.fn)
              /\ FirstError.text =
                   "Tried to {} with {}, but no backing file system was configured."

\* C16, its case: without a configured fs, a File evaluated its children
\* and halted when it was to write them.
C16_Witness ==
  /\ fsConfig = "null" /\ doc.k = "File" /\ isComponent(doc.name)
  /\ pc = "done" /\ result = Null /\ errors = 1 /\ calls = << >>
  /\ FirstError.attempted = "write a UTF-8 string to a data file"

\* C17: what is evaluated inside a nested ConfigFs works on the backend of
\* that ConfigFs only: it leaves the entries and the current directory of
\* the outer backend as they are, which stays in the directory of the Dirs
\* around the nested ConfigFs; what is evaluated outside of it, before or
\* after, works on the outer backend only.
C17_InnermostConfigWins ==
  [][ pc = "running" =>
        /\ InInnerScope =>
             /\ files' = files /\ cwd' = cwd
             /\ calls' # calls => calls'[Len(calls')].fs = "inner"
        /\ ~InInnerScope =>
             /\ innerFiles' = innerFiles /\ innerCwd' = innerCwd
             /\ calls' # calls => calls'[Len(calls')].fs = fsConfig
        /\ "cd" \notin CallsOf(doc) => cwd = OuterDirs(stack)
    ]_vars

\* C17, its case: a File foo inside a nested ConfigFs was written to the
\* inner backend although the outer one has a foo, and the File bar after
\* the ConfigFs was written to the outer backend.
C17_Witness ==
  /\ doc.k = "fragment" /\ doc.xs[1].k = "config"
  /\ files0 = (<< foo >> :> DataEntry(zzz)) @@ EmptyFs
  /\ pc = "done" /\ errors = 0
  /\ innerFiles = (<< foo >> :> DataEntry(ha)) @@ EmptyFs
  /\ files = (<< bar >> :> DataEntry(ha)) @@ files0

\* C20: a backend method that threw is never swallowed: the package has
\* logged an error that names the operation attempted and, right after it,
\* the backend's error as a second error, the halt flag is set, and the
\* evaluation ends with null.
C20_BackendFailureIsReported ==
  \A i \in DOMAIN calls :
    calls[i].threw =>
      /\ haltExecution /\ errors >= 2
      /\ \E j \in DOMAIN log :
           /\ j + 1 \in DOMAIN log
           /\ log[j].level = "error"
           /\ log[j].text = "Tried to {}, but encounter the following error:"
           /\ log[j].attempted = calls[i].op.explanation
           /\ log[j + 1].level = "error"
           /\ log[j + 1].cause = calls[i].op.name
      /\ pc = "done" => result = Null

\* C20, its case: mkdirSync, called where foo exists, threw; both errors
\* are logged and the evaluation ended with null.
C20_Witness ==
  /\ doc.k = "call" /\ doc.fn = "mkdirSync"
  /\ Len(calls) = 1 /\ calls[1].threw
  /\ pc = "done" /\ result = Null /\ errors = 2
  /\ log[1].attempted = "create a directory" /\ log[2].cause = "mkdirSync"

-----------------------------------------------------------------------------

\* The name prop of the File whose children are being evaluated (the closest
\* one), or null outside of the children of every File.
NearestFile(s) ==
  LET I == { i \in DOMAIN s : s[i].k = "map" } IN
  IF I = { } THEN NullName
  ELSE SomeName(s[CHOOSE i \in I : \A j \in I : j <= i].path.components[1])

\* An effect is about to call currentFile(ctx).
AtProbe == pc = "running" /\ ctl.m = "eval" /\ ctl.e.k = "probe"

\* C21: currentFile(ctx) returns the name prop of the nearest surrounding
\* File while that File's children are being evaluated, and null whenever
\* the evaluation is not inside the children of any File.
C21_CurrentFileIsNearestFile ==
  [][AtProbe => seen'[Len(seen')].value = NearestFile(stack)]_vars

-----------------------------------------------------------------------------

\* An effect is about to call a function of the package.
AtCall == pc = "running" /\ ctl.m = "eval" /\ ctl.e.k = "call"

\* The parameters of function fn after ctx, as its declaration lists them
\* (src is called path here).
Parameters(fn) ==
  CASE fn \in { "pwd", "getFs" } -> << >>
    [] fn \in { "write", "writeSync", "writeString", "writeStringSync" } ->
         << "path", "data", "mode" >>
    [] fn \in { "mkdir", "mkdirSync", "ensureNot", "ensureNotSync" } ->
         << "path", "mode" >>
    [] fn \in { "copy", "copySync", "move", "moveSync" } ->
         << "path", "dst", "mode" >>
    [] OTHER -> << "path" >>

\* The arguments the effect calls fn with.
Given(fn) == [i \in DOMAIN Parameters(fn) |-> CallArgs[Parameters(fn)[i]]]

\* C22: each file-system function of the package invokes exactly one
\* backend method, the one of its own name, on the fs of the nearest
\* surrounding ConfigFs, with the arguments it was given, unchanged and in
\* the same order, and returns what the method returned when it succeeds.
C22_FunctionsPassThrough ==
  [][( AtCall /\ ctl.e.fn # "getFs" /\ CurrentFs(stack) # "null" ) =>
       /\ Len(calls') = Len(calls) + 1
       /\ LET c == calls'[Len(calls')] IN
          /\ c.op.name = ctl.e.fn
          /\ c.fs = CurrentFs(stack)
          /\ c.op.args = Given(ctl.e.fn)
          /\ ~c.threw =>
               /\ Len(seen') = Len(seen) + 1
               /\ seen'[Len(seen')] =
                    [fn |-> ctl.e.fn,
                     value |-> Invoke(c.fs, CurrentFiles, CurrentCwd,
                                      c.op).ret]]_vars

\* copy was called under a backend that tells what it was asked: one call,
\* of copy, with source, destination and mode, and copy returned what the
\* backend returned.
C22_Witness ==
  /\ pc = "done" /\ fsConfig = "stub" /\ doc = Call("copy")
  /\ Len(calls) = 1 /\ ~calls[1].threw
  /\ calls[1].op.args = << PathRelative(<< foo >>, 0),
                           PathRelative(<< bar >>, 0), "undefined" >>
  /\ seen = << [fn |-> "copy",
                value |-> [returnedBy |-> "copy",
                           given |-> calls[1].op.args]] >>

-----------------------------------------------------------------------------

\* The macros around Deno a document is made of.
DenoOf(e) ==
  IF e.k = "deno" THEN { e }
  ELSE IF e.k = "fragment"
  THEN { e.xs[i] : i \in { j \in DOMAIN e.xs : e.xs[j].k = "deno" } }
  ELSE { }

\* C23: every macro around the Deno file-system API, in its synchronous and
\* in its asynchronous form, records an error and halts the evaluation
\* whenever the operation it runs fails, also when the failure is a
\* rejected promise.
C23_DenoFailureHalts ==
  /\ \A i \in DOMAIN seen :
       ( seen[i].fn \in DenoMacros
           /\ seen[i].value \in { "throws", "rejected" } )
         => ( errors > 0 /\ haltExecution )
  /\ \A e \in DenoOf(doc) :
       e.name \in DenoMacros =>
         \A o \in Outcomes(e.name, e.form) \cap { "throws", "rejected" } :
           LET r == DenoFunction(World, e.name, e.form, e.props,
                                 e.children.s, o)
           IN  r.errors > errors /\ r.haltExecution

-----------------------------------------------------------------------------

\* Call j is the create-directory call for the directory called name in
\* the directory a chain of Dirs d leads to, on backend fs.
MakesDir(j, fs, d, name) ==
  /\ calls[j].op.name = "mkdir" /\ calls[j].fs = fs
  /\ calls[j].inside = d
  /\ calls[j].op.path = PathRelative(<< name >>, 0)

\* C25: for every Dir, the create-directory call happens before the first
\* cd into the directory and before any backend call issued by any of its
\* descendants.
C25_CreateBeforePopulate ==
  CallsOf(doc) = { } =>
    \A i \in DOMAIN calls :
      /\ ( calls[i].op.name = "cd" /\ calls[i].op.path.components # << >> )
           => \E j \in 1 .. (i - 1) :
                MakesDir(j, calls[i].fs, calls[i].inside,
                         calls[i].op.path.components[1])
      /\ \A n \in DOMAIN calls[i].inside :
           \E j \in 1 .. (i - 1) :
             MakesDir(j, calls[i].fs, SubSeq(calls[i].inside, 1, n - 1),
                      calls[i].inside[n])

\* Dir foo { Dir bar { File foo } } was evaluated: foo was made, entered,
\* bar made inside it and entered, and the File written there.
C25_Witness ==
  /\ pc = "done" /\ result = Str(EmptyString) /\ files0 = EmptyFs
  /\ doc = DirMacro(foo, "undefined",
                    DirMacro(bar, "undefined",
                             FileMacro(foo, "undefined", FALSE, Str(ha))))
  /\ Len(calls) = 7
  /\ calls[1].op.name = "mkdir" /\ calls[2].op.name = "cd"
  /\ calls[3].op.name = "mkdir" /\ calls[3].inside = << foo >>
  /\ calls[4].op.name = "cd"
  /\ calls[5].op.name = "writeString" /\ calls[5].inside = << foo, bar >>
  /\ files[<< foo, bar, foo >>] = DataEntry(ha)

-----------------------------------------------------------------------------

\* Call i creates or writes an entry.
IsMutation(i) == calls[i].op.name \in { "mkdir", "writeString" }

\* The name of the top-level declaration call i was made by or within.
TopLevelOwner(i) ==
  IF calls[i].inside = Root THEN calls[i].op.path.components[1]
  ELSE calls[i].inside[1]

\* The document is two sibling declarations A and B of different names.
TwoSiblings ==
  /\ doc.k = "fragment" /\ Len(doc.xs) = 2
  /\ \A n \in 1 .. 2 : doc.xs[n].k \in { "Dir", "File" }
                         /\ isComponent(doc.xs[n].name)
  /\ doc.xs[1].name # doc.xs[2].name
  /\ CallsOf(doc) = { }

\* C26: for sibling declarations A before B, every backend mutation caused
\* by A and its descendants happens before every backend mutation caused by
\* B and its descendants, also when the children of A are completed in a
\* later round than the first.
C26_SiblingsInDocumentOrder ==
  TwoSiblings =>
    \A i, j \in DOMAIN calls :
      ( /\ IsMutation(i) /\ IsMutation(j)
        /\ TopLevelOwner(i) = doc.xs[1].name
        /\ TopLevelOwner(j) = doc.xs[2].name ) => i < j

-----------------------------------------------------------------------------

\* Among the first n calls, the cds on backend b that descend into one
\* directory, and those that ascend exactly one level.
Descents(b, n) ==
  { i \in 1 .. n : /\ calls[i].fs = b /\ calls[i].op.name = "cd"
                   /\ calls[i].op.path.up = 0
                   /\ Len(calls[i].op.path.components) = 1 }
Ascents(b, n) ==
  { i \in 1 .. n : /\ calls[i].fs = b /\ calls[i].op.name = "cd"
                   /\ calls[i].op.path = PathRelative(<< >>, 1) }

\* The number of Dirs on backend b whose children are being evaluated.
EnteredDirs(b) ==
  IF b = "inner"
  THEN IF InInnerScope THEN Len(EnclosingDirs(stack)) ELSE 0
  ELSE Len(OuterDirs(stack))

\* C27: descents and ascents of the current directory are balanced: every
\* cd of the package descends into one directory or ascends exactly one
\* level, no ascent comes without an earlier descent that is still open,
\* the descents not yet undone are those of the Dirs whose children are
\* being evaluated, and after an evaluation that completed successfully
\* every descent was undone and the current directory is the one from
\* before.
C27_CdBalanced ==
  "cd" \notin CallsOf(doc) =>
    \A b \in { "memFs", "inner" } :
      /\ \A n \in 0 .. Len(calls) :
           /\ Cardinality(Ascents(b, n)) <= Cardinality(Descents(b, n))
           /\ ( n > 0 /\ calls[n].fs = b /\ calls[n].op.name = "cd" )
                => n \in Descents(b, n) \cup Ascents(b, n)
      /\ pc = "running" =>
           Cardinality(Descents(b, Len(calls)))
             = Cardinality(Ascents(b, Len(calls))) + EnteredDirs(b)
      /\ ( pc = "done" /\ ~haltExecution /\ result # Null ) =>
           /\ Cardinality(Descents(b, Len(calls)))
                = Cardinality(Ascents(b, Len(calls)))
           /\ cwd = Root /\ innerCwd = Root

\* Dir foo { Dir bar { File foo } } was evaluated successfully: two
\* descents, two ascents, and the current directory is the root again.
C27_Witness ==
  /\ pc = "done" /\ ~haltExecution /\ result = Str(EmptyString)
  /\ doc = DirMacro(foo, "undefined",
                    DirMacro(bar, "undefined",
                             FileMacro(foo, "undefined", FALSE, Str(ha))))
  /\ Descents("memFs", Len(calls)) = { 2, 4 }
  /\ Ascents("memFs", Len(calls)) = { 6, 7 }
  /\ cwd = Root

-----------------------------------------------------------------------------

\* The asynchronous functions with their synchronous counterparts.
Pairs ==
  { << "ls", "lsSync" >>, << "stat", "statSync" >>, << "read", "readSync" >>,
    << "write", "writeSync" >>, << "mkdir", "mkdirSync" >>,
    << "remove", "removeSync" >>, << "copy", "copySync" >>,
    << "move", "moveSync" >>, << "readString", "readStringSync" >>,
    << "writeString", "writeStringSync" >>,
    << "ensureNot", "ensureNotSync" >> }
Paired == { p[1] : p \in Pairs } \cup { p[2] : p \in Pairs }
Counterpart(fn) ==
  CHOOSE g \in Paired : << fn, g >> \in Pairs \/ << g, fn >> \in Pairs

\* The name of the asynchronous variant of a backend method.
AsyncName(n) ==
  IF \E p \in Pairs : p[2] = n THEN (CHOOSE p \in Pairs : p[2] = n)[1] ELSE n

\* Two values a function returned are the same, where the two variants of
\* a method of the backend double agree when they report the same
\* arguments.
SameValue(u, v) ==
  IF "returnedBy" \in DOMAIN u /\ "returnedBy" \in DOMAIN v
  THEN AsyncName(u.returnedBy) = AsyncName(v.returnedBy) /\ u.given = v.given
  ELSE u = v

\* Worlds x and y, left by the two variants of a function, are the same to
\* an observer: entries, current directory, number and texts of the errors
\* and notes, halt (and whether it was thrown), the arguments and the
\* outcome of the backend call, and the value returned.
SameBehaviour(x, y) ==
  /\ x.files = y.files /\ x.cwd = y.cwd
  /\ x.errors = y.errors
  /\ x.haltExecution = y.haltExecution /\ x.thrown = y.thrown
  /\ Len(x.log) = Len(y.log)
  /\ \A i \in DOMAIN x.log :
       /\ x.log[i].level = y.log[i].level /\ x.log[i].text = y.log[i].text
       /\ x.log[i].attempted = y.log[i].attempted
       /\ AsyncName(x.log[i].cause) = AsyncName(y.log[i].cause)
  /\ Len(x.calls) = Len(y.calls)
  /\ \A i \in DOMAIN x.calls :
       /\ AsyncName(x.calls[i].op.name) = AsyncName(y.calls[i].op.name)
       /\ x.calls[i].op.args = y.calls[i].op.args
       /\ x.calls[i].threw = y.calls[i].threw
       /\ x.calls[i].fs = y.calls[i].fs
  /\ ~x.thrown => SameValue(x.value, y.value)

\* C28: each synchronous function and its asynchronous counterpart behave
\* the same to an observer, for a backend whose two variants agree: same
\* backend state afterwards, same result, and the same errors and halt when
\* no fs is configured or the backend call fails.
C28_SyncLikeAsync ==
  ( AtCall /\ ctl.e.fn \in Paired ) =>
    SameBehaviour(PackageCall(World, ctl.e.fn, CallArgs),
                  PackageCall(World, Counterpart(ctl.e.fn), CallArgs))

\* The world before the evaluation, seen from its end.
WorldBefore ==
  [World EXCEPT !.files = files0, !.cwd = Root, !.calls = << >>,
                !.errors = 0, !.log = << >>, !.seen = << >>,
                !.haltExecution = FALSE]

\* writeStringSync was called on foo where foo exists and has failed: two
\* errors, halt, nothing written; writeString on the same backend leaves
\* the same.
C28_Witness ==
  /\ pc = "done" /\ doc = Call("writeStringSync") /\ fsConfig = "memFs"
  /\ FsStat(files0, << foo >>) = "data"
  /\ Len(calls) = 1 /\ calls[1].threw /\ calls[1].op.name = "writeStringSync"
  /\ errors = 2 /\ haltExecution /\ files = files0
  /\ LET y == PackageCall(WorldBefore, "writeString", CallArgs) IN
     /\ y.errors = errors /\ y.haltExecution /\ y.files = files
     /\ y.calls[1].threw /\ y.calls[1].op.name = "writeString"

-----------------------------------------------------------------------------

\* The calls of backend method m so far.
CallsTo(m) == { i \in DOMAIN calls : calls[i].op.name = m }

\* C29: in one evaluation each Dir issues its create-directory call exactly
\* once and each File its write exactly once, however many rounds its
\* children need; a Dir without a mode whose children need several rounds
\* does not fail in a later round over the directory it made in the first.
C29_OnceEach ==
  CallsOf(doc) = { } =>
    /\ Cardinality(CallsTo("mkdir")) <= CountOf(doc, "Dir")
    /\ Cardinality(CallsTo("writeString")) <= CountOf(doc, "File")
    /\ ( pc = "done" /\ ~haltExecution /\ result # Null ) =>
         /\ Cardinality(CallsTo("mkdir")) = CountOf(doc, "Dir")
         /\ Cardinality(CallsTo("writeString")) = CountOf(doc, "File")
    /\ ( fsConfig = "memFs" /\ files0 = EmptyFs /\ IsTree(doc)
         /\ Distinct(NamesOf(doc)) ) =>
         /\ \A i \in DOMAIN calls : ~calls[i].threw
         /\ ~haltExecution

\* Dir foo without a mode, whose child File bar waited until the third
\* round, was evaluated over an empty backend: one mkdir, one write, three
\* times entered and left, nothing failed.
C29_Witness ==
  /\ pc = "done" /\ result = Str(EmptyString) /\ round = 3
  /\ files0 = EmptyFs /\ errors = 0
  /\ doc = DirMacro(foo, "undefined",
                    ProgressGate(FileMacro(bar, "undefined", FALSE, Str(ha))))
  /\ Cardinality(CallsTo("mkdir")) = 1
  /\ Cardinality(CallsTo("writeString")) = 1
  /\ Cardinality(CallsTo("cd")) = 6
  /\ files[<< foo, bar >>] = DataEntry(ha)

-----------------------------------------------------------------------------

\* A callback of a File is about to run: its effect function or its map
\* function.
AtFile ==
  \/ pc = "running" /\ ctl.m = "eval" /\ ctl.e.k = "File"
  \/ AtFileMap

\* The children of some File are being evaluated.
InFileChildren ==
  pc = "running" /\ \E i \in DOMAIN stack : stack[i].k = "map"

\* C30: a File never changes the backend's current directory: it issues no
\* cd, its children are evaluated in the current directory of the enclosing
\* Dirs (not in a directory named after the File), and the only paths Dir
\* and File pass to mkdir and writeString are relative paths of exactly one
\* component, a valid name.
C30_FileLeavesCwd ==
  [][CallsOf(doc) = { } =>
       /\ AtFile =>
            /\ cwd' = cwd /\ innerCwd' = innerCwd
            /\ \A i \in DOMAIN calls' :
                 i > Len(calls) => calls'[i].op.name # "cd"
       /\ InFileChildren => CurrentCwd = EnclosingDirs(stack)
       /\ \A i \in DOMAIN calls' :
            calls'[i].op.name \in { "mkdir", "writeString" } =>
              /\ calls'[i].op.path.up = 0
              /\ Len(calls'[i].op.path.components) = 1
              /\ isComponent(calls'[i].op.path.components[1])]_vars

\* In Dir foo { File bar }, the File has just written: the path it passed
\* is the name bar alone, the call was made in foo, and foo is still the
\* current directory.
C30_Witness ==
  /\ pc = "running" /\ files0 = EmptyFs
  /\ doc = DirMacro(foo, "undefined",
                    FileMacro(bar, "undefined", FALSE, Str(ha)))
  /\ Len(calls) = 3
  /\ calls[3].op.name = "writeString"
  /\ calls[3].op.path = PathRelative(<< bar >>, 0)
  /\ calls[3].at = << foo >>
  /\ cwd = << foo >>
  /\ files[<< foo, bar >>] = DataEntry(ha)

====
